---- MODULE Spec2Model ----
(***************************************************************************)
(* Model of docs/source/sphinxext/gallery_generator.py: the thumbnail      *)
(* cropper, the notebook page extractor, the table-of-contents loader and  *)
(* the gallery builder.  Strings are sequences of one-character strings,   *)
(* so that find, split, strip, basename and splitext are computed the way  *)
(* Python computes them.                                                   *)
(***************************************************************************)
EXTENDS Integers, Sequences, FiniteSets, TLC

\* ------------------------------------------------------------------ bounds
MaxToc == 2        \* identifiers in a table of contents
MaxRuns == 2       \* consecutive invocations of build_gallery
MaxTime == 2       \* latest modification time an external change can stamp
MaxCells == 2      \* cells of a notebook (title / preview functions)
MaxRows == 2       \* source rows of a cell
MaxOutputs == 2    \* outputs of a cell
MaxDim == 4        \* rows and columns of an image
CenterSteps == 2   \* center fractions are k / CenterSteps, k \in 0..CenterSteps

\* --------------------------------------------------------- string helpers
\* An optional value is a sequence of at most one element: None is <<>>.
None == <<>>
Some(x) == <<x>>
IsNone(o) == Len(o) = 0
The(o) == o[1]

Range(s) == {s[i] : i \in 1..Len(s)}

Min2(a, b) == IF a <= b THEN a ELSE b
Max2(a, b) == IF a >= b THEN a ELSE b

\* ord() of the characters the model uses
Ord(c) ==
    CASE c = "\n" -> 10 [] c = " " -> 32 [] c = "#" -> 35 [] c = "." -> 46
      [] c = "/" -> 47 [] c = "A" -> 65 [] c = "T" -> 84 [] c = "_" -> 95
      [] c = "a" -> 97 [] c = "b" -> 98 [] c = "d" -> 100 [] c = "e" -> 101
      [] c = "h" -> 104 [] c = "i" -> 105 [] c = "l" -> 108 [] c = "m" -> 109
      [] c = "n" -> 110 [] c = "o" -> 111 [] c = "p" -> 112 [] c = "r" -> 114
      [] c = "s" -> 115 [] c = "t" -> 116 [] c = "u" -> 117 [] c = "x" -> 120
      [] c = "y" -> 121 [] OTHER -> 63

\* str.__lt__: lexicographic by code point, a proper prefix is smaller
RECURSIVE StrLess(_, _)
StrLess(s, t) ==
    IF t = <<>> THEN FALSE
    ELSE IF s = <<>> THEN TRUE
    ELSE IF Head(s) = Head(t) THEN StrLess(Tail(s), Tail(t))
    ELSE Ord(Head(s)) < Ord(Head(t))

\* s[i:] with a 1-based first index
Drop(s, n) == SubSeq(s, n + 1, Len(s))
Take(s, n) == SubSeq(s, 1, n)

\* str.startswith / str.endswith
StartsWith(s, p) == Len(s) >= Len(p) /\ Take(s, Len(p)) = p
EndsWith(s, p) == Len(s) >= Len(p) /\ Drop(s, Len(s) - Len(p)) = p

\* str.find: the lowest 0-based index where sub occurs, -1 when it does not
Find(s, sub) ==
    LET hits == {i \in 0..(Len(s) - Len(sub)) : SubSeq(s, i + 1, i + Len(sub)) = sub}
    IN  IF hits = {} THEN -1 ELSE CHOOSE i \in hits : \A j \in hits : i <= j

\* str.rfind of one character, 0-based, -1 when absent
RFindChar(s, c) ==
    LET hits == {i \in 0..(Len(s) - 1) : s[i + 1] = c}
    IN  IF hits = {} THEN -1 ELSE CHOOSE i \in hits : \A j \in hits : i >= j

\* str.replace of one character by another
Replace(s, a, b) == [i \in 1..Len(s) |-> IF s[i] = a THEN b ELSE s[i]]

\* str.split(sep) for a one-character separator: always at least one part
RECURSIVE Split(_, _)
Split(s, sep) ==
    LET i == Find(s, <<sep>>)
    IN  IF i = -1 THEN <<s>> ELSE <<Take(s, i)>> \o Split(Drop(s, i + 1), sep)

\* sep.join(parts)
RECURSIVE Join(_, _)
Join(parts, sep) ==
    IF parts = <<>> THEN <<>>
    ELSE IF Len(parts) = 1 THEN parts[1]
    ELSE parts[1] \o <<sep>> \o Join(Tail(parts), sep)

IsSpace(c) == c \in {" ", "\n"}

\* str.strip(): whitespace removed at both ends
RECURSIVE LStrip(_)
LStrip(s) == IF s # <<>> /\ IsSpace(Head(s)) THEN LStrip(Tail(s)) ELSE s

RECURSIVE RStrip(_)
RStrip(s) ==
    IF s # <<>> /\ IsSpace(s[Len(s)]) THEN RStrip(Take(s, Len(s) - 1)) ELSE s

Strip(s) == RStrip(LStrip(s))

\* str.rstrip(chars) for one character
RECURSIVE RStripChar(_, _)
RStripChar(s, c) ==
    IF s # <<>> /\ s[Len(s)] = c THEN RStripChar(Take(s, Len(s) - 1), c) ELSE s

Upper(c) ==
    CASE c = "t" -> "T" [] c = "e" -> "E" [] c = "a" -> "A" [] OTHER -> c

IsAlpha(c) == Ord(c) >= 65 /\ c \notin {"_"} /\ Ord(c) # 63

\* str.title(): the first letter of every run of letters in upper case
TitleCase(s) ==
    [i \in 1..Len(s) |->
        IF IsAlpha(s[i]) /\ (i = 1 \/ ~IsAlpha(s[i - 1])) THEN Upper(s[i]) ELSE s[i]]

\* os.path.basename: what follows the last separator
PathBasename(p) == Drop(p, RFindChar(p, "/") + 1)

\* os.path.splitext: the extension starts at the last dot of the last
\* component, unless only dots precede it there
Splitext(p) ==
    LET sepIndex == RFindChar(p, "/")
        dotIndex == RFindChar(p, ".")
    IN  IF dotIndex > sepIndex
           /\ \E k \in (sepIndex + 1)..(dotIndex - 1) : p[k + 1] # "."
        THEN <<Take(p, dotIndex), Drop(p, dotIndex)>>
        ELSE <<p, <<>>>>

\* os.path.join of two parts
PathJoin(a, b) ==
    IF StartsWith(b, <<"/">>) THEN b
    ELSE IF a = <<>> \/ EndsWith(a, <<"/">>) THEN a \o b
    ELSE a \o <<"/">> \o b

\* sorted(): the ascending list of the elements of a list
RECURSIVE Insert(_, _)
Insert(x, sortedSeq) ==
    IF sortedSeq = <<>> THEN <<x>>
    ELSE IF StrLess(x, Head(sortedSeq)) THEN <<x>> \o sortedSeq
    ELSE <<Head(sortedSeq)>> \o Insert(x, Tail(sortedSeq))

RECURSIVE Sorted(_)
Sorted(s) == IF s = <<>> THEN <<>> ELSE Insert(s[Len(s)], Sorted(Take(s, Len(s) - 1)))

\* all sequences over S of length at most n
SeqsUpTo(S, n) == UNION {[1..k -> S] : k \in 0..n}

\* ------------------------------------------------------ program constants
DefaultWidth == 275
DefaultHeight == 275
DefaultBorder == 4

IPYNB == <<".", "i", "p", "y", "n", "b">>
RST == <<".", "r", "s", "t">>
PNG == <<".", "p", "n", "g">>
HTML == <<".", "h", "t", "m", "l">>
DEFAULT_PNG == <<"d", "e", "f", "a", "u", "l", "t">> \o PNG

\* the bytes of DEFAULT_IMG_LOC (logos/PyMC3.png)
DefaultImage == <<137, 80, 78, 71>>

\* ------------------------------------------------------- create_thumbnail
\* int(): truncation toward zero of the quotient n / d, d > 0
IntTrunc(n, d) == IF n >= 0 THEN n \div d ELSE -((-n) \div d)

\* int(c * extent - size // 2) for the center fraction c = k / CenterSteps
CenterOffset(k, extent, size) ==
    IntTrunc(k * extent - CenterSteps * (size \div 2), CenterSteps)

\* create_thumbnail, lines 55-65: the slices of the crop.  cx = kx /
\* CenterSteps and cy = ky / CenterSteps; the code never reads cy.
CropWindow(rows, cols, kx, ky) ==
    LET size == Min2(rows, cols)
    IN  IF size = cols
        THEN LET ymin == Min2(Max2(0, CenterOffset(kx, rows, size)), rows - size)
             IN  [x0 |-> 0, x1 |-> size, y0 |-> ymin, y1 |-> ymin + size]
        ELSE LET xmin == Min2(Max2(0, CenterOffset(kx, cols, size)), cols - size)
             IN  [x0 |-> xmin, x1 |-> xmin + size, y0 |-> 0, y1 |-> size]

\* create_thumbnail on a file of the image directory, lines 66-75: the file
\* is overwritten by the bordered crop rendered at width x height
create_thumbnail(file) ==
    [src |-> file.src, thumb |-> TRUE,
     width |-> DefaultWidth, height |-> DefaultHeight, border |-> DefaultBorder]

\* a file as written by open(..., "wb") or shutil.copy, not yet cropped
RawImage(data) == [src |-> data, thumb |-> FALSE, width |-> 0, height |-> 0, border |-> 0]

\* ---------------------------------------------------------- extract_title
MARKDOWN == "markdown"
CODE == "code"
HEADING == <<"#", " ">>

\* rows = [row.strip() for row in cell["source"] if row.strip()]
StrippedRows(source) ==
    LET F[i \in 0..Len(source)] ==
            IF i = 0 THEN <<>>
            ELSE IF Strip(source[i]) # <<>> THEN Append(F[i - 1], Strip(source[i]))
            ELSE F[i - 1]
    IN  F[Len(source)]

\* the inner loop of extract_title: row[2:] of the first row that starts
\* with "# ", None when there is none
RECURSIVE FirstHeading(_)
FirstHeading(rows) ==
    IF rows = <<>> THEN None
    ELSE IF StartsWith(Head(rows), HEADING) THEN Some(Drop(Head(rows), 2))
    ELSE FirstHeading(Tail(rows))

\* A variant that looks at the cells of every type.
RECURSIVE TitleOfAnyCell(_, _)
TitleOfAnyCell(cells, basename) ==
    IF cells = <<>> THEN Replace(basename, "_", " ")
    ELSE LET t == FirstHeading(StrippedRows(Head(cells).source))
         IN  IF ~IsNone(t) THEN The(t) ELSE TitleOfAnyCell(Tail(cells), basename)

\* NotebookGenerator.extract_title, lines 118-125
RECURSIVE extract_title(_, _)
extract_title(cells, basename) ==
    IF cells = <<>> THEN Replace(basename, "_", " ")
    ELSE LET cell == Head(cells)
             t == IF cell.cell_type = MARKDOWN
                  THEN FirstHeading(StrippedRows(cell.source))
                  ELSE None
         IN  IF ~IsNone(t) THEN The(t) ELSE extract_title(Tail(cells), basename)

\* ---------------------------------------------------- extract_preview_pic
\* the value of a base64 digit
B64Index(c) ==
    CASE c = "A" -> 0 [] c = "B" -> 1 [] c = "D" -> 3 [] c = "J" -> 9
      [] c = "Q" -> 16 [] c = "U" -> 20 [] c = "/" -> 63 [] OTHER -> 0

\* base64.b64decode of unpadded text: four digits give three bytes
RECURSIVE b64decode(_)
b64decode(text) ==
    IF Len(text) < 4 THEN <<>>
    ELSE LET n == B64Index(text[1]) * 262144 + B64Index(text[2]) * 4096
                  + B64Index(text[3]) * 64 + B64Index(text[4])
         IN  <<n \div 65536, (n \div 256) % 256, n % 256>> \o b64decode(Drop(text, 4))

\* cell.get("outputs", [])
CellOutputs(cell) == IF IsNone(cell.outputs) THEN <<>> ELSE The(cell.outputs)

\* "image/png" in output.get("data", [])
HasPng(output) == ~IsNone(output.data) /\ ~IsNone(The(output.data).png)

\* output["data"]["image/png"]
PngOf(output) == The(The(output.data).png)

\* the inner loop of extract_preview_pic over the outputs of one cell
RECURSIVE ScanOutputs(_, _)
ScanOutputs(outputs, pic) ==
    IF outputs = <<>> THEN pic
    ELSE ScanOutputs(Tail(outputs),
                     IF HasPng(Head(outputs)) THEN Some(PngOf(Head(outputs))) ELSE pic)

\* the outer loop of extract_preview_pic over the cells
RECURSIVE ScanCells(_, _)
ScanCells(cells, pic) ==
    IF cells = <<>> THEN pic
    ELSE ScanCells(Tail(cells), ScanOutputs(CellOutputs(Head(cells)), pic))

\* A variant that keeps the first image it meets.
RECURSIVE FirstPicCells(_, _)
FirstPicCells(cells, pic) ==
    IF cells = <<>> \/ ~IsNone(pic) THEN pic
    ELSE LET outs == CellOutputs(Head(cells))
             hits == {i \in 1..Len(outs) : HasPng(outs[i])}
             first == IF hits = {} THEN None
                      ELSE Some(PngOf(outs[CHOOSE i \in hits : \A j \in hits : i <= j]))
         IN  FirstPicCells(Tail(cells), first)

extract_first_pic(cells) ==
    LET pic == FirstPicCells(cells, None)
    IN  IF ~IsNone(pic) THEN Some(b64decode(The(pic))) ELSE None

\* NotebookGenerator.extract_preview_pic, lines 107-116
extract_preview_pic(cells) ==
    LET pic == ScanCells(cells, None)
    IN  IF ~IsNone(pic) THEN Some(b64decode(The(pic))) ELSE None

\* NotebookGenerator.gen_previews, lines 127-134, on the image directory
\* (a function from file name to file)
gen_previews(images, cells, pngName) ==
    LET preview == extract_preview_pic(cells)
        written == IF ~IsNone(preview) THEN RawImage(The(preview))
                   ELSE RawImage(DefaultImage)
    IN  [n \in DOMAIN images \cup {pngName} |->
            IF n = pngName THEN create_thumbnail(written) ELSE images[n]]

\* ------------------------------------------------------------------ state
VARIABLES
    dirs,         \* the directories that exist, among AllDirs
    tocFile,      \* table_of_contents_<gallery>.js: None, or the list it assigns
    notebooks,    \* identifier -> [cells, mtime] of <source_dir>/<identifier>.ipynb
    html,         \* stripped name -> mtime of ../notebooks/<name>.html
    images,       \* file name -> file of <target_dir>/_images
    jsFile,       \* gallery_<gallery>_contents.js: None, or [examples, toc]
    indexFile,    \* <target_dir>/index.rst: None, or the template's arguments
    now,          \* the time an external change stamps next
    cwd,          \* the process working directory
    gallery,      \* the gallery name build_gallery is called with
    pc,           \* the position of build_gallery
    working_dir,  \* build_gallery's local of that name
    contents,     \* tocjs.contents
    todo,         \* what the for loop has still to visit
    data,         \* build_gallery's local of that name: key -> entry
    runs,         \* the calls of build_gallery so far
    srcAtStart,   \* whether source_dir existed when the call started
    branch,       \* identifier -> the branch its NotebookGenerator took
    keyOf,        \* identifier -> the key its entry was stored under
    prevBranch,   \* branch of the previous call, when it returned normally
    modified,     \* whether a notebook or an output_html changed since then
    call          \* the call of a function under test, with its result

fsVars == <<dirs, tocFile, notebooks, html, images, jsFile, indexFile, now>>
procVars == <<cwd, gallery, pc, working_dir, contents, todo, data>>
histVars == <<runs, srcAtStart, branch, keyOf, prevBranch, modified>>
vars == <<fsVars, procVars, histVars, call>>

AllDirs == {"static", "target", "image", "source"}
Cwds == {"launch", "srcdir"}
EmptyMap == <<>>

tutorials == <<"t", "u", "t", "o", "r", "i", "a", "l", "s">>
examples == <<"e", "x", "a", "m", "p", "l", "e", "s">>
Galleries == {tutorials, examples}

\* source_dir, an absolute path
SourceDir == <<"/", "n", "b">>

\* f with key k set to v
Put(f, k, v) == [x \in DOMAIN f \cup {k} |-> IF x = k THEN v ELSE f[x]]

\* ------------------------------------------------------ NotebookGenerator
\* line 183: filename = os.path.join(source_dir, basename + ".ipynb")
NotebookFilename(id) == PathJoin(SourceDir, id \o IPYNB)

\* line 83: self.basename
Basename(filename) == PathBasename(filename)

\* A variant that cuts the name at its first dot.
StrippedAtFirstDot(filename) == Split(PathBasename(filename), ".")[1]

\* line 84: self.stripped_name
stripped_name(filename) == Splitext(Basename(filename))[1]

\* lines 85-87: self.output_html
output_html(filename) ==
    PathJoin(PathJoin(<<".", ".">>, <<"n", "o", "t", "e", "b", "o", "o", "k", "s">>),
             stripped_name(filename) \o HTML)

\* lines 89-91 and 188: os.path.basename(self.png_path)
png_name(filename) == stripped_name(filename) \o PNG

\* A variant that also regenerates when the two times are equal.
StaleOrEqual(htmlFiles, name, nbTime) ==
    IF name \notin DOMAIN htmlFiles THEN TRUE ELSE htmlFiles[name] <= nbTime

\* lines 99-101: output_html is missing or older than the notebook
Stale(htmlFiles, name, nbTime) ==
    IF name \notin DOMAIN htmlFiles THEN TRUE ELSE htmlFiles[name] < nbTime

\* ---------------------------------------------------------- build_gallery
\* A variant that takes a missing file for an empty table of contents.
run_path_lenient(existing, file) ==
    IF "source" \in existing /\ ~IsNone(file) THEN file ELSE Some(<<>>)

\* TableOfContentsJS.load, lines 140-145: None when the file cannot be run
run_path(existing, file) ==
    IF "source" \in existing /\ ~IsNone(file) THEN file ELSE None

\* line 182: basename.find(".rst") < 1
IsNotebookId(id) == Find(id, RST) < 1

\* lines 185-189
NotebookEntry(id, g) ==
    LET filename == NotebookFilename(id)
    IN  [title |-> extract_title(notebooks[id].cells, Basename(filename)),
         url   |-> PathJoin(PathJoin(<<"/">>, g), output_html(filename)),
         thumb |-> png_name(filename)]

\* lines 191-196
PageEntry(id, g) ==
    LET filename == Split(id, ".")[1]
    IN  [title |-> Join(Split(filename, "_"), " "),
         url   |-> PathJoin(PathJoin(<<"/">>, g), <<".", ".", "/">> \o filename \o HTML),
         thumb |-> PathBasename(DEFAULT_PNG)]

\* lines 148-150
Start ==
    /\ pc = "idle"
    /\ runs < MaxRuns
    /\ working_dir' = cwd
    /\ cwd' = "srcdir"
    /\ pc' = "load"
    /\ runs' = runs + 1
    /\ srcAtStart' = ("source" \in dirs)
    /\ branch' = EmptyMap
    /\ keyOf' = EmptyMap
    /\ contents' = <<>>
    /\ todo' = <<>>
    /\ data' = EmptyMap
    /\ UNCHANGED <<fsVars, gallery, prevBranch, modified, call>>

\* lines 159-160, the load succeeds
LoadToc ==
    /\ pc = "load"
    /\ ~IsNone(run_path(dirs, tocFile))
    /\ contents' = The(run_path(dirs, tocFile))
    /\ pc' = "mkdirs"
    /\ UNCHANGED <<fsVars, cwd, gallery, working_dir, todo, data, histVars, call>>

\* lines 159-160, run_path raises: the exception leaves build_gallery
LoadTocFails ==
    /\ pc = "load"
    /\ IsNone(run_path(dirs, tocFile))
    /\ pc' = "aborted"
    /\ UNCHANGED <<fsVars, cwd, gallery, working_dir, contents, todo, data, histVars, call>>

\* lines 162-172
MakeDirs ==
    /\ pc = "mkdirs"
    /\ dirs' = dirs \cup {"static", "target", "image", "source"}
    /\ pc' = "default"
    /\ UNCHANGED <<tocFile, notebooks, html, images, jsFile, indexFile, now,
                   cwd, gallery, working_dir, contents, todo, data, histVars, call>>

\* lines 174-181: the default image, data = {} and the sorted list
DefaultThumb ==
    /\ pc = "default"
    /\ images' = Put(images, DEFAULT_PNG, create_thumbnail(RawImage(DefaultImage)))
    /\ data' = EmptyMap
    /\ todo' = Sorted(contents)
    /\ pc' = "loop"
    /\ UNCHANGED <<dirs, tocFile, notebooks, html, jsFile, indexFile, now,
                   cwd, gallery, working_dir, contents, histVars, call>>

\* lines 182-189 with lines 82-103: the notebook is stale
NotebookStale ==
    /\ pc = "loop" /\ todo # <<>>
    /\ LET id == Head(todo)
           filename == NotebookFilename(id)
       IN  /\ IsNotebookId(id)
           /\ id \in DOMAIN notebooks
           /\ Stale(html, stripped_name(filename), notebooks[id].mtime)
           /\ images' = gen_previews(images, notebooks[id].cells, png_name(filename))
           /\ data' = Put(data, stripped_name(filename), NotebookEntry(id, gallery))
           /\ branch' = Put(branch, id, "stale")
           /\ keyOf' = Put(keyOf, id, stripped_name(filename))
    /\ todo' = Tail(todo)
    /\ UNCHANGED <<dirs, tocFile, notebooks, html, jsFile, indexFile, now,
                   cwd, gallery, pc, working_dir, contents,
                   runs, srcAtStart, prevBranch, modified, call>>

\* lines 182-189 with lines 82-105: the notebook is fresh, "skipping"
NotebookFresh ==
    /\ pc = "loop" /\ todo # <<>>
    /\ LET id == Head(todo)
           filename == NotebookFilename(id)
       IN  /\ IsNotebookId(id)
           /\ id \in DOMAIN notebooks
           /\ ~Stale(html, stripped_name(filename), notebooks[id].mtime)
           /\ data' = Put(data, stripped_name(filename), NotebookEntry(id, gallery))
           /\ branch' = Put(branch, id, "fresh")
           /\ keyOf' = Put(keyOf, id, stripped_name(filename))
    /\ todo' = Tail(todo)
    /\ UNCHANGED <<fsVars, cwd, gallery, pc, working_dir, contents,
                   runs, srcAtStart, prevBranch, modified, call>>

\* lines 92-93: open(filename) raises, the notebook file does not exist
NotebookMissing ==
    /\ pc = "loop" /\ todo # <<>>
    /\ IsNotebookId(Head(todo))
    /\ Head(todo) \notin DOMAIN notebooks
    /\ pc' = "aborted"
    /\ UNCHANGED <<fsVars, cwd, gallery, working_dir, contents, todo, data, histVars, call>>

\* lines 190-196: a hand-written page
Page ==
    /\ pc = "loop" /\ todo # <<>>
    /\ ~IsNotebookId(Head(todo))
    /\ data' = Put(data, Head(todo), PageEntry(Head(todo), gallery))
    /\ keyOf' = Put(keyOf, Head(todo), Head(todo))
    /\ todo' = Tail(todo)
    /\ UNCHANGED <<fsVars, cwd, gallery, pc, working_dir, contents,
                   runs, srcAtStart, branch, prevBranch, modified, call>>

\* lines 198-207: the manifest, followed by the table of contents file
WriteManifest ==
    /\ pc = "loop" /\ todo = <<>>
    /\ ~IsNone(tocFile)
    /\ jsFile' = Some([examples |-> data, toc |-> The(tocFile)])
    /\ pc' = "index"
    /\ UNCHANGED <<dirs, tocFile, notebooks, html, images, indexFile, now,
                   cwd, gallery, working_dir, contents, todo, data, histVars, call>>

\* lines 209-216: the index page, then os.chdir(working_dir)
WriteIndex ==
    /\ pc = "index"
    /\ indexFile' = Some([sphinx_tag |-> "notebook_gallery", gallery |-> gallery,
                          Gallery |-> RStripChar(TitleCase(gallery), "s")])
    /\ cwd' = working_dir
    /\ pc' = "done"
    /\ UNCHANGED <<dirs, tocFile, notebooks, html, images, jsFile, now,
                   gallery, working_dir, contents, todo, data, histVars, call>>

\* an uncaught exception of a file or image operation at any step after
\* os.chdir(srcdir): nothing in lines 148-216 catches it
Fault ==
    /\ pc \in {"load", "mkdirs", "default", "loop", "index"}
    /\ pc' = "aborted"
    /\ UNCHANGED <<fsVars, cwd, gallery, working_dir, contents, todo, data, histVars, call>>

\* ----------------------------------------------------------- environment
\* the next call of build_gallery for the same gallery, from the directory
\* the last one returned to; an aborted build ends the documentation build
NewBuild ==
    /\ pc = "done"
    /\ runs < MaxRuns
    /\ pc' = "idle"
    /\ prevBranch' = Some(branch)
    /\ modified' = FALSE
    /\ UNCHANGED <<fsVars, cwd, gallery, working_dir, contents, todo, data,
                   runs, srcAtStart, branch, keyOf, call>>

\* somebody edits a notebook between two builds
TouchNotebook ==
    /\ pc = "idle" /\ runs > 0 /\ now <= MaxTime
    /\ \E id \in DOMAIN notebooks :
          notebooks' = [notebooks EXCEPT ![id].mtime = now]
    /\ now' = now + 1
    /\ modified' = TRUE
    /\ UNCHANGED <<dirs, tocFile, html, images, jsFile, indexFile, procVars,
                   runs, srcAtStart, branch, keyOf, prevBranch, call>>

\* the documentation build writes a notebook's page between two builds
WriteHtml ==
    /\ pc = "idle" /\ runs > 0 /\ now <= MaxTime
    /\ \E id \in DOMAIN notebooks :
          html' = Put(html, stripped_name(NotebookFilename(id)), now)
    /\ now' = now + 1
    /\ modified' = TRUE
    /\ UNCHANGED <<dirs, tocFile, notebooks, images, jsFile, indexFile, procVars,
                   runs, srcAtStart, branch, keyOf, prevBranch, call>>

\* ----------------------------------------------------------- input pools
\* base64 texts of embedded images: "QUJD" and "////"
Payload1 == <<"Q", "U", "J", "D">>
Payload2 == <<"/", "/", "/", "/">>

OutStream == [data |-> None]
OutText == [data |-> Some([png |-> None])]
OutPng(p) == [data |-> Some([png |-> Some(p)])]

MdCell(rows) == [cell_type |-> MARKDOWN, source |-> rows, outputs |-> None]
CodeCell(rows, outs) == [cell_type |-> CODE, source |-> rows, outputs |-> Some(outs)]

\* a notebook with a heading and an image, and one with neither
NbTitled == <<MdCell(<<<<"#", " ", "T", "\n">>>>), CodeCell(<<<<"x">>>>, <<OutPng(Payload1)>>)>>
NbPlain == <<CodeCell(<<<<"x">>>>, <<OutStream>>)>>
NbPool == {NbTitled, NbPlain}

\* identifiers a table of contents may list
IdPool ==
    { <<"a">>, <<"a", "_", "b">>, <<"d", "/", "a">>, <<"a", ".", "b">>, RST,
      <<"a", "_", "b">> \o RST, <<"a", ".", "b">> \o RST,
      <<"a">> \o RST \o <<"x">> }
IdCore == { <<"a">>, <<"a", "_", "b">>, <<"a">> \o RST }

NotebookIds(toc) == {id \in Range(toc) : IsNotebookId(id)}
NameOf(id) == Splitext(PathBasename(PathJoin(SourceDir, id \o IPYNB)))[1]

NoCall == [op |-> "none"]

ProcInit ==
    /\ pc = "idle"
    /\ working_dir = "launch"
    /\ contents = <<>>
    /\ todo = <<>>
    /\ data = EmptyMap
    /\ runs = 0
    /\ srcAtStart = TRUE
    /\ branch = EmptyMap
    /\ keyOf = EmptyMap
    /\ prevBranch = None
    /\ modified = FALSE
    /\ jsFile = None
    /\ indexFile = None
    /\ now = 2

\* any table of contents over IdPool, its notebooks present and alike
InitContents ==
    /\ ProcInit
    /\ call = NoCall
    /\ cwd = "launch"
    /\ gallery = examples
    /\ dirs = AllDirs
    /\ \E toc \in SeqsUpTo(IdPool, MaxToc) :
          /\ tocFile = Some(toc)
          /\ \E nb \in NbPool :
                notebooks = [id \in NotebookIds(toc) |-> [cells |-> nb, mtime |-> 1]]
          /\ \E built \in BOOLEAN :
                html = IF built THEN [n \in {NameOf(id) : id \in NotebookIds(toc)} |-> 1]
                       ELSE EmptyMap
    /\ images = EmptyMap

\* which directories exist before the first build
DirScenarios == { {}, {"source"}, AllDirs }

\* a small table of contents over any state of the files around it
InitFiles ==
    /\ ProcInit
    /\ call = NoCall
    /\ cwd \in Cwds
    /\ gallery = tutorials
    /\ dirs \in DirScenarios
    /\ IF "source" \in dirs
       THEN /\ tocFile \in {None} \cup {Some(toc) : toc \in SeqsUpTo(IdCore, MaxToc)}
            /\ \E present \in SUBSET {id \in IdCore : IsNotebookId(id)} :
                  notebooks = [id \in present |->
                                  [cells |-> IF id = <<"a">> THEN NbTitled ELSE NbPlain,
                                   mtime |-> 1]]
       ELSE tocFile = None /\ notebooks = EmptyMap
    /\ \E built \in SUBSET {NameOf(id) : id \in {i \in IdCore : IsNotebookId(i)}} :
          html \in [built -> {0, 1}]
    /\ IF "image" \in dirs
       THEN \E kept \in BOOLEAN :
               images = IF kept
                        THEN [n \in {NameOf(id) \o PNG : id \in DOMAIN notebooks} |->
                                 create_thumbnail(RawImage(DefaultImage))]
                        ELSE EmptyMap
       ELSE images = EmptyMap

Init == InitContents \/ InitFiles

Next ==
    \/ Start
    \/ LoadToc
    \/ LoadTocFails
    \/ MakeDirs
    \/ DefaultThumb
    \/ NotebookStale
    \/ NotebookFresh
    \/ NotebookMissing
    \/ Page
    \/ WriteManifest
    \/ WriteIndex
    \/ Fault
    \/ NewBuild
    \/ TouchNotebook
    \/ WriteHtml

Spec == Init /\ [][Next]_vars

\* ------------------------------------------- the functions on their own
\* build_gallery at rest while one function is called
Quiet ==
    /\ ProcInit
    /\ cwd = "launch"
    /\ gallery = tutorials
    /\ dirs = AllDirs
    /\ tocFile = None
    /\ notebooks = EmptyMap
    /\ html = EmptyMap
    /\ images = EmptyMap

mainVars == <<fsVars, procVars, histVars>>

\* create_thumbnail(infile, cx = kx / CenterSteps, cy = ky / CenterSteps)
\* on an image of rows x cols pixels
InitThumb ==
    /\ Quiet
    /\ \E r \in 1..MaxDim, c \in 1..MaxDim, kx \in 0..CenterSteps, ky \in 0..CenterSteps :
          call = [op |-> "create_thumbnail", rows |-> r, cols |-> c, kx |-> kx, ky |-> ky,
                  done |-> FALSE, window |-> [x0 |-> 0, x1 |-> 0, y0 |-> 0, y1 |-> 0]]

CreateThumbnail ==
    /\ call.op = "create_thumbnail" /\ ~call.done
    /\ call' = [call EXCEPT !.done = TRUE,
                            !.window = CropWindow(call.rows, call.cols, call.kx, call.ky)]
    /\ UNCHANGED mainVars

SpecThumb == InitThumb /\ [][CreateThumbnail]_vars

\* rows of a notebook cell: "# T\n", " # A" and "# "
RowPool == { <<"#", " ", "T", "\n">>, <<" ", "#", " ", "A">>, <<"#", " ">> }
TitleCells ==
    {MdCell(r) : r \in SeqsUpTo(RowPool, MaxRows)}
        \cup {CodeCell(<<<<"#", " ", "T", "\n">>>>, <<>>)}
TitleNotebooks == SeqsUpTo(TitleCells, MaxCells)

InitTitle ==
    /\ Quiet
    /\ \E cells \in TitleNotebooks :
          call = [op |-> "extract_title", cells |-> cells,
                  basename |-> <<"a", "_", "b">> \o IPYNB, done |-> FALSE, title |-> <<>>]

ExtractTitle ==
    /\ call.op = "extract_title" /\ ~call.done
    /\ call' = [call EXCEPT !.done = TRUE,
                            !.title = extract_title(call.cells, call.basename)]
    /\ UNCHANGED mainVars

SpecTitle == InitTitle /\ [][ExtractTitle]_vars

OutPool == {OutStream, OutText, OutPng(Payload1), OutPng(Payload2)}
PreviewCells ==
    {MdCell(<<>>)} \cup {CodeCell(<<>>, outs) : outs \in SeqsUpTo(OutPool, MaxOutputs)}
PreviewNotebooks == SeqsUpTo(PreviewCells, MaxCells)
PreviewPng == <<"a">> \o PNG

InitPreview ==
    /\ Quiet
    /\ \E cells \in PreviewNotebooks :
          call = [op |-> "gen_previews", cells |-> cells, done |-> FALSE,
                  pic |-> None, images |-> EmptyMap]

GenPreviews ==
    /\ call.op = "gen_previews" /\ ~call.done
    /\ call' = [call EXCEPT !.done = TRUE,
                            !.pic = extract_preview_pic(call.cells),
                            !.images = gen_previews(call.images, call.cells, PreviewPng)]
    /\ UNCHANGED mainVars

SpecPreview == InitPreview /\ [][GenPreviews]_vars

\* ================================================================ claims
\* the identifiers the table of contents lists
TocIds == Range(contents)

\* the file name of an identifier's notebook without directory and extension
FileStem(id) == Splitext(PathBasename(PathJoin(SourceDir, id \o IPYNB)))[1]

\* the key an identifier's entry is expected under
ExpectedKey(id) == IF Find(id, RST) < 1 THEN FileStem(id) ELSE id

C2_SecondRunAllFresh ==
    (runs >= 2 /\ pc = "done" /\ ~modified) =>
        \A id \in DOMAIN branch : branch[id] = "fresh"

\* C2, amended: build_gallery writes no output_html, so in a second run with
\* no notebook and no output_html modified in between every
\* NotebookGenerator takes the branch it took in the first run; it takes the
\* fresh branch, and gen_previews is not called, exactly for the notebooks
\* whose output_html exists and is not older than the notebook.
C2_SecondRunRepeatsFirst ==
    (runs >= 1 /\ pc \in {"loop", "index", "done"}) =>
        \A id \in DOMAIN branch :
           /\ (runs >= 2 /\ ~modified) =>
                  /\ id \in DOMAIN The(prevBranch)
                  /\ branch[id] = The(prevBranch)[id]
           /\ branch[id] = "fresh" <=>
                  (IF FileStem(id) \in DOMAIN html
                   THEN html[FileStem(id)] >= notebooks[id].mtime
                   ELSE FALSE)

\* C2, witness: a second run, nothing modified, that completed with every
\* notebook fresh, after a first run that regenerated nothing either
C2_Witness ==
    /\ runs = 2 /\ pc = "done" /\ ~modified
    /\ Cardinality(DOMAIN branch) = 2
    /\ \A id \in DOMAIN branch : branch[id] = "fresh" /\ The(prevBranch)[id] = "fresh"

\* C3: whenever a call of build_gallery has ended, by returning or by a
\* fault, the working directory is the one in effect when it started.
C3_CwdRestoredOnEveryExit ==
    pc \in {"done", "aborted"} => cwd = working_dir

\* C4: every notebook whose NotebookGenerator was constructed, stale or
\* fresh, has a cropped PNG at <target_dir>/_images/<stripped name>.png.
C4_PngAfterConstruction ==
    \A id \in DOMAIN branch :
        /\ (FileStem(id) \o PNG) \in DOMAIN images
        /\ images[FileStem(id) \o PNG].thumb

\* C5, as stated: a build that starts without the notebook source directory
\* creates it and completes, with a manifest of zero entries.
C5_MissingSourceDirCompletes ==
    (~srcAtStart /\ pc \in {"done", "aborted"}) =>
        /\ pc = "done"
        /\ "source" \in dirs
        /\ DOMAIN data = {}

\* C5, amended: a build that starts without the notebook source directory
\* fails at the load of the table of contents, which comes before any
\* directory is created and reads a file of that directory: the build is
\* aborted, the source directory is not created and no manifest or index is
\* written.
C5_MissingSourceDirAborts ==
    ~srcAtStart =>
        /\ pc \in {"load", "aborted"}
        /\ "source" \notin dirs
        /\ IsNone(jsFile)
        /\ IsNone(indexFile)

\* C5, witness: a build started without the source directory and aborted
C5_Witness == ~srcAtStart /\ pc = "aborted" /\ runs = 1 /\ "source" \notin dirs

\* whether no markdown row of the cells starts with "# ", stripped or not
NoHeading(cells) ==
    \A i \in 1..Len(cells) :
        cells[i].cell_type = MARKDOWN =>
            \A j \in 1..Len(cells[i].source) :
                ~StartsWith(Strip(cells[i].source[j]), HEADING)

\* C7: the manifest title of a notebook without a "# " markdown line is the
\* key of its entry (the stripped name) with underscores turned into spaces.
C7_FallbackTitleIsStrippedName ==
    pc = "done" =>
        \A id \in DOMAIN branch :
            NoHeading(notebooks[id].cells) =>
                data[keyOf[id]].title = Replace(keyOf[id], "_", " ")

\* C9: an identifier is a page exactly when it ends in ".rst": a page is
\* keyed by the identifier, titled by what precedes the extension with
\* underscores turned into spaces, and shows default.png; any other
\* identifier is keyed by its notebook's stripped name and shows
\* <stripped name>.png.
C9_PageExactlyWhenRstSuffixed ==
    pc = "done" =>
        \A id \in TocIds :
            IF EndsWith(id, RST)
            THEN /\ id \in DOMAIN data
                 /\ data[id].title = Replace(Take(id, Len(id) - Len(RST)), "_", " ")
                 /\ data[id].thumb = DEFAULT_PNG
            ELSE /\ FileStem(id) \in DOMAIN data
                 /\ data[FileStem(id)].thumb = FileStem(id) \o PNG

\* whether a row begins with "# ", as it stands or once stripped
RawHeading(row) == StartsWith(row, HEADING)
StrippedHeading(row) == StartsWith(Strip(row), HEADING)

\* the positions <<cell, row>> of the markdown rows that are headings
HeadingRows(cells, stripped) ==
    UNION { { <<i, j>> : j \in {k \in 1..Len(cells[i].source) :
                                   IF stripped THEN StrippedHeading(cells[i].source[k])
                                   ELSE RawHeading(cells[i].source[k])} }
            : i \in {c \in 1..Len(cells) : cells[c].cell_type = MARKDOWN} }

\* the first position in cell order, then row order
FirstPos(hits) ==
    CHOOSE p \in hits :
        \A q \in hits : p[1] < q[1] \/ (p[1] = q[1] /\ p[2] <= q[2])

\* C6, as stated: the title is what follows "# " on the first line that
\* begins with "# " of the first markdown cell that has such a line.
C6_TitleOfFirstRawHeading ==
    (call.op = "extract_title" /\ call.done) =>
        LET hits == HeadingRows(call.cells, FALSE)
        IN  hits # {} =>
               LET p == FirstPos(hits)
               IN  call.title = RStrip(Drop(call.cells[p[1]].source[p[2]], 2))

\* C6, amended: the title is what follows "# " on the first line that,
\* once stripped of surrounding whitespace, begins with "# ", of the first
\* markdown cell that has such a line; it is taken from the stripped line.
C6_TitleOfFirstStrippedHeading ==
    (call.op = "extract_title" /\ call.done) =>
        LET hits == HeadingRows(call.cells, TRUE)
        IN  hits # {} =>
               LET p == FirstPos(hits)
               IN  call.title = Drop(Strip(call.cells[p[1]].source[p[2]]), 2)

\* C6, witness: a code cell with a heading row, then a markdown cell whose
\* second row is its first heading; the title is that row's
C6_Witness ==
    /\ call.op = "extract_title" /\ call.done
    /\ Len(call.cells) = 2
    /\ call.cells[1].cell_type = CODE
    /\ call.cells[2] = MdCell(<< <<"#", " ">>, <<" ", "#", " ", "A">> >>)
    /\ call.title = <<"A">>

\* the positions <<cell, output>> of the outputs that embed an image
PngOutputs(cells) ==
    UNION { { <<i, j>> : j \in {k \in 1..Len(CellOutputs(cells[i])) :
                                   HasPng(CellOutputs(cells[i])[k])} }
            : i \in 1..Len(cells) }

LastPos(hits) ==
    CHOOSE p \in hits :
        \A q \in hits : p[1] > q[1] \/ (p[1] = q[1] /\ p[2] >= q[2])

\* what "QUJD" and "////" decode to
Decoded(text) == IF text = Payload1 THEN <<65, 66, 67>> ELSE <<255, 255, 255>>

\* C8: with at least one embedded image extract_preview_pic returns the
\* decoded data of the last one in cell order, then output order, and that
\* is what gen_previews writes; with none it returns None and gen_previews
\* copies the default image to png_path.
C8_PreviewIsLastImage ==
    (call.op = "gen_previews" /\ call.done) =>
        LET hits == PngOutputs(call.cells)
        IN  IF hits # {}
            THEN LET p == LastPos(hits)
                     want == Decoded(PngOf(CellOutputs(call.cells[p[1]])[p[2]]))
                 IN  /\ call.pic = Some(want)
                     /\ call.images[PreviewPng].src = want
            ELSE /\ call.pic = None
                 /\ call.images[PreviewPng].src = DefaultImage

\* C8, witness: two cells with three images, the last one differing from
\* the first, and the preview is the last
C8_Witness ==
    /\ call.op = "gen_previews" /\ call.done
    /\ Len(call.cells) = 2
    /\ CellOutputs(call.cells[1]) = <<OutPng(Payload2), OutPng(Payload1)>>
    /\ CellOutputs(call.cells[2]) = <<OutPng(Payload2), OutText>>
    /\ call.pic = Some(<<255, 255, 255>>)

\* the offset of the crop along an axis of the given extent
ClampedOffset(k, extent, size) ==
    Min2(Max2(0, CenterOffset(k, extent, size)), extent - size)

\* C10: the crop is a square of side min(rows, cols) inside the image, and
\* along the longer axis its offset is the clamped center offset, of cx on
\* the horizontal axis and of cy on the vertical axis.
C10_CropFollowsCenterOfItsAxis ==
    (call.op = "create_thumbnail" /\ call.done) =>
        LET w == call.window
            size == Min2(call.rows, call.cols)
        IN  /\ w.x1 - w.x0 = size /\ w.y1 - w.y0 = size
            /\ 0 <= w.x0 /\ w.x1 <= call.cols
            /\ 0 <= w.y0 /\ w.y1 <= call.rows
            /\ call.cols > call.rows => w.x0 = ClampedOffset(call.kx, call.cols, size)
            /\ call.rows > call.cols => w.y0 = ClampedOffset(call.ky, call.rows, size)

====
